---- MODULE Spec2Model ----
(***************************************************************************)
(* A model of libcloud/storage/drivers/s3.py: the S3 response classifier,  *)
(* the query-string signer, the storage driver operations and the XML      *)
(* entity mapper.                                                          *)
(*                                                                         *)
(* Text is modelled as a sequence of tokens (characters where the code     *)
(* inspects characters), so that formatting, joining, lower-casing and     *)
(* stripping are computed and not assumed.                                 *)
(***************************************************************************)
EXTENDS Integers, Sequences, FiniteSets, TLC

VARIABLES
    driver,     \* the S3StorageDriver instance in use (one of the regional drivers)
    conn,       \* the driver's S3Connection: the attributes request() writes (method, action)
    thr,        \* per thread: the driver operation it is running and where it is
    now,        \* time.time() as an integer
    heap,       \* parameter dict objects, by identity
    call,       \* the last direct call of add_default_params / _get_aws_auth_param
    doc,        \* the parsed XML document handed to the entity mapper
    mapped      \* what the entity mapper returned for doc

vars == <<driver, conn, thr, now, heap, call, doc, mapped>>

None == "None"

(***************************************************************************)
(* Bounds of the model.                                                    *)
(***************************************************************************)
MaxHeaders == 2     \* entries in a header dict handed to the signer
MaxNodes == 2       \* child nodes per list section of an XML document
MaxTicks == 1       \* seconds the clock advances

(***************************************************************************)
(* Text helpers.                                                           *)
(***************************************************************************)
\* str(int): the decimal digits of a non-negative integer
DigitChar(d) ==
    CASE d = 0 -> "0" [] d = 1 -> "1" [] d = 2 -> "2" [] d = 3 -> "3"
      [] d = 4 -> "4" [] d = 5 -> "5" [] d = 6 -> "6" [] d = 7 -> "7"
      [] d = 8 -> "8" [] d = 9 -> "9"

RECURSIVE Str(_)
Str(n) == IF n < 10 THEN <<DigitChar(n)>>
          ELSE Str(n \div 10) \o <<DigitChar(n % 10)>>

\* sep.join(parts)
RECURSIVE Join(_, _)
Join(parts, sep) ==
    IF Len(parts) = 0 THEN <<>>
    ELSE IF Len(parts) = 1 THEN parts[1]
    ELSE parts[1] \o sep \o Join(Tail(parts), sep)

\* str.lower() on one character of the alphabet used for header values
LowerChar(c) ==
    CASE c = "A" -> "a" [] c = "B" -> "b" [] OTHER -> c

Lower(s) == [i \in 1..Len(s) |-> LowerChar(s[i])]

IsSpace(c) == c \in {" ", "\t", "\n"}

\* str.strip(): leading and trailing whitespace removed
RECURSIVE LStrip(_)
LStrip(s) == IF Len(s) > 0 /\ IsSpace(s[1]) THEN LStrip(Tail(s)) ELSE s

RECURSIVE RStrip(_)
RStrip(s) == IF Len(s) > 0 /\ IsSpace(s[Len(s)])
             THEN RStrip(SubSeq(s, 1, Len(s) - 1)) ELSE s

Strip(s) == RStrip(LStrip(s))

\* key.lower() on the header names that occur
LowerKey(k) ==
    CASE k = "Content-MD5" -> "content-md5"
      [] k = "Content-Type" -> "content-type"
      [] k = "Date" -> "date"
      [] k = "X-Amz-Acl" -> "x-amz-acl"
      [] OTHER -> k

(***************************************************************************)
(* Module constants.                                                       *)
(***************************************************************************)
EXPIRATION_SECONDS == 15 * 60

API_VERSION == "2006-03-01"
NAMESPACE == <<"http://s3.amazonaws.com/doc/", API_VERSION, "/">>

OK == 200
NO_CONTENT == 204
NOT_FOUND == 404
CONFLICT == 409

(***************************************************************************)
(* Credentials of the connection, immutable for its lifetime.              *)
(***************************************************************************)
USER_ID == "AKIDEXAMPLE"
SECRET_KEY == "wJalrXUtnFEMI"
SecretKeys == {SECRET_KEY, "otherSecret"}

T0 == 1300000000

GET == <<"G", "E", "T">>
PUT == <<"P", "U", "T">>
DELETE == <<"D", "E", "L", "E", "T", "E">>
Methods == {GET, PUT, DELETE}

ContainerNames == {<<"a">>, <<"b">>}
\* '/%s' % (name)
PathOf(name) == <<"/">> \o name
Paths == {<<"/">>} \cup {PathOf(n) : n \in ContainerNames}

(***************************************************************************)
(* Dicts: a function from its keys.  A header dict is given in its         *)
(* iteration order, as a sequence of entries with distinct keys.           *)
(***************************************************************************)
EmptyDict == [k \in {} |-> k]
DictSet(d, k, v) == [x \in (DOMAIN d) \cup {k} |-> IF x = k THEN v ELSE d[x]]

HeaderNames == {"Content-MD5", "content-md5", "Content-Type", "Date", "X-Amz-Acl"}
HeaderValues == {<<>>, <<"a">>, <<"A", "b">>, <<" ", "a">>, <<"a", "\n">>}
HeaderEntries == [key : HeaderNames, value : HeaderValues]
HeaderDicts ==
    {h \in UNION {[1..n -> HeaderEntries] : n \in 0..MaxHeaders} :
        \A i, j \in 1..Len(h) : i # j => h[i].key # h[j].key}

(***************************************************************************)
(* S3Connection._get_aws_auth_param                                        *)
(***************************************************************************)
special_header_keys == {"content-md5", "content-type", "date"}

\* the loop over headers_copy.iteritems(): a later entry overwrites an earlier one
RECURSIVE CollectSpecial(_, _)
CollectSpecial(headers, values) ==
    IF Len(headers) = 0 THEN values
    ELSE LET e == headers[1]
             k == LowerKey(e.key)
         IN CollectSpecial(Tail(headers),
                IF k \in special_header_keys
                THEN DictSet(values, k, Strip(Lower(e.value)))
                ELSE values)

\* position of a key in the sorted key list (string order)
KeyRank(k) ==
    CASE k = "content-md5" -> 1 [] k = "content-type" -> 2 [] k = "date" -> 3

\* keys_sorted = d.keys(); keys_sorted.sort()
SortedKeys(d) ==
    LET n == Cardinality(DOMAIN d)
    IN CHOOSE s \in [1..n -> DOMAIN d] :
           \A i, j \in 1..n : i < j => KeyRank(s[i]) < KeyRank(s[j])

SpecialHeaderValues(headers, expires) ==
    LET v0 == CollectSpecial(headers, DictSet(EmptyDict, "date", <<>>))
        v1 == IF "content-md5" \in DOMAIN v0 THEN v0
              ELSE DictSet(v0, "content-md5", <<>>)
        v2 == IF "content-type" \in DOMAIN v1 THEN v1
              ELSE DictSet(v1, "content-type", <<>>)
    IN IF expires # <<>> THEN DictSet(v2, "date", expires) ELSE v2

StringToSign(method, headers, expires, path) ==
    LET values == SpecialHeaderValues(headers, expires)
        keys == SortedKeys(values)
        buf == <<method>> \o [i \in 1..Len(keys) |-> values[keys[i]]]
    IN Join(buf, <<"\n">>) \o <<"\n">> \o path

\* hmac.new(key, msg, digestmod=sha1).digest() and base64.b64encode as
\* injective symbolic terms
HmacSha1(key, msg) == <<"hmac-sha1", key, msg>>
B64Encode(x) == <<"base64", x>>

GetAwsAuthParam(method, headers, params, expires, secret_key, path) ==
    B64Encode(HmacSha1(secret_key, StringToSign(method, headers, expires, path)))

(***************************************************************************)
(* S3Connection.add_default_params                                         *)
(***************************************************************************)
\* Connection.add_default_headers: the base connection adds nothing
AddDefaultHeaders(headers) == headers

\* the three assignments into the dict object params refers to; the same
\* reference is returned
AddDefaultParamsOnCopy(h, c, ref, t) ==
    LET expires == Str(t + EXPIRATION_SECONDS)
        headers == AddDefaultHeaders(<<>>)
        new == Len(h) + 1
        p0 == h[ref]
        p1 == DictSet(p0, "Signature",
                  GetAwsAuthParam(c.method, headers, p0, expires, SECRET_KEY, c.action))
        p2 == DictSet(p1, "AWSAccessKeyId", USER_ID)
        p3 == DictSet(p2, "Expires", expires)
    IN [heap |-> Append(h, p3), ret |-> new]
AddDefaultParams(h, c, ref, t) ==
    LET expires == Str(t + EXPIRATION_SECONDS)
        headers == AddDefaultHeaders(<<>>)
        p0 == h[ref]
        p1 == DictSet(p0, "Signature",
                  GetAwsAuthParam(c.method, headers, p0, expires, SECRET_KEY, c.action))
        p2 == DictSet(p1, "AWSAccessKeyId", USER_ID)
        p3 == DictSet(p2, "Expires", expires)
    IN [heap |-> [h EXCEPT ![ref] = p3], ret |-> ref]

(***************************************************************************)
(* Values.  None in a text slot is NoneText, in an object slot NoneRef.    *)
(***************************************************************************)
NoneText == <<None>>
NoneRef == [is_none |-> TRUE]

\* whether text ends with the tokens of tail
EndsWith(text, tail) ==
    /\ Len(text) >= Len(tail)
    /\ SubSeq(text, Len(text) - Len(tail) + 1, Len(text)) = tail

(***************************************************************************)
(* The regional drivers: S3StorageDriver and its four subclasses.          *)
(***************************************************************************)
S3StorageDriverClass == [class |-> "S3StorageDriver"]

Drivers == {
    [name |-> "Amazon S3 (standard)",       host |-> "s3.amazonaws.com",
     ex_location_name |-> <<>>],
    [name |-> "Amazon S3 (us-west-1)",      host |-> "s3-us-west-1.amazonaws.com",
     ex_location_name |-> <<"us-west-1">>],
    [name |-> "Amazon S3 (eu-west-1)",      host |-> "s3-eu-west-1.amazonaws.com",
     ex_location_name |-> <<"EU">>],
    [name |-> "Amazon S3 (ap-southeast-1)", host |-> "s3-ap-southeast-1.amazonaws.com",
     ex_location_name |-> <<"ap-southeast-1">>],
    [name |-> "Amazon S3 (ap-northeast-1)", host |-> "s3-ap-northeast-1.amazonaws.com",
     ex_location_name |-> <<"ap-northeast-1">>] }

(***************************************************************************)
(* Entities and errors.                                                    *)
(***************************************************************************)
Container(name, extra, drv) == [name |-> name, extra |-> extra, driver |-> drv]

Object(name, size, hash, extra, meta_data, container, drv) ==
    [name |-> name, size |-> size, hash |-> hash, extra |-> extra,
     meta_data |-> meta_data, container |-> container, driver |-> drv]

LibcloudError(value, drv) ==
    [cls |-> "LibcloudError", value |-> value, driver |-> drv,
     container_name |-> NoneText]

InvalidCredsError(value) ==
    [cls |-> "InvalidCredsError", value |-> value, driver |-> NoneRef,
     container_name |-> NoneText]

ContainerIsNotEmptyError(value, container_name, drv) ==
    [cls |-> "ContainerIsNotEmptyError", value |-> value, driver |-> drv,
     container_name |-> container_name]

ContainerDoesNotExistError(value, drv, container_name) ==
    [cls |-> "ContainerDoesNotExistError", value |-> value, driver |-> drv,
     container_name |-> container_name]

Return(v) == [kind |-> "return", value |-> v]
Raise(e) == [kind |-> "raise", exc |-> e]

(***************************************************************************)
(* S3Response                                                              *)
(***************************************************************************)
valid_response_codes == {NOT_FOUND, CONFLICT}

SuccessOnly2xx(status) == status >= 200 /\ status <= 299
Success(status) ==
    (status >= 200 /\ status <= 299) \/ status \in valid_response_codes

\* parse_error always raises; this is the exception it raises
ParseError(status, body) ==
    IF status = 403 THEN InvalidCredsError(body)
    ELSE IF status = 301 THEN
        LibcloudError(<<"This bucket is located in a different ",
                        "region. Please use the correct driver.">>,
                      S3StorageDriverClass)
    ELSE LibcloudError(<<"Unknown error. Status code: ">> \o Str(status),
                       S3StorageDriverClass)

\* Response.__init__ of the base class: a response that is not a success
\* raises what parse_error raises, any other is handed to the caller
ResponseInit(raw) ==
    IF ~Success(raw.status) THEN Raise(ParseError(raw.status, raw.body))
    ELSE Return(raw)

(***************************************************************************)
(* XML: an element is [tag, text, kids]; a tag is <<namespace, name>>.     *)
(***************************************************************************)
Elem(ns, name, text, kids) == [tag |-> <<ns, name>>, text |-> text, kids |-> kids]

\* libcloud.utils.fixxpath: every step of the path qualified by the namespace
FixXPath(xpath, namespace) == [i \in 1..Len(xpath) |-> <<namespace, xpath[i]>>]

RECURSIVE Flatten(_)
Flatten(seqs) == IF Len(seqs) = 0 THEN <<>> ELSE seqs[1] \o Flatten(Tail(seqs))

\* Element.findall(path): the matching descendants in document order
RECURSIVE FindAll(_, _)
FindAll(element, path) ==
    IF Len(path) = 0 THEN <<element>>
    ELSE Flatten([i \in 1..Len(element.kids) |->
                    IF element.kids[i].tag = path[1]
                    THEN FindAll(element.kids[i], Tail(path))
                    ELSE <<>>])

\* libcloud.utils.findtext: the text of the first match ('' when it has none),
\* None when nothing matches
FindText(element, xpath, namespace) ==
    LET found == FindAll(element, FixXPath(xpath, namespace))
    IN IF Len(found) = 0 THEN NoneText
       ELSE IF found[1].text = NoneText THEN <<>> ELSE found[1].text

(***************************************************************************)
(* The entity mapper of S3StorageDriver                                    *)
(***************************************************************************)
ToContainer(self, element) ==
    Container(FindText(element, <<"Name">>, NAMESPACE),
              [creation_date |-> FindText(element, <<"CreationDate">>, NAMESPACE)],
              self)

ToObj(self, element, container) ==
    LET owner_id == FindText(element, <<"Owner", "ID">>, NAMESPACE)
        owner_display_name == FindText(element, <<"Owner", "DisplayName">>, NAMESPACE)
        meta_data == [owner |-> [id |-> owner_id,
                                 display_name |-> owner_display_name]]
    IN Object(FindText(element, <<"Key">>, NAMESPACE),
              FindText(element, <<"Size">>, NAMESPACE),
              FindText(element, <<"ETag">>, NAMESPACE),
              NoneRef, meta_data, container, self)

ToContainers(self, obj, xpath) ==
    LET found == FindAll(obj, FixXPath(xpath, NAMESPACE))
    IN [i \in 1..Len(found) |-> ToContainer(self, found[i])]

ToObjsReversed(self, obj, xpath, container) ==
    LET found == FindAll(obj, FixXPath(xpath, NAMESPACE))
    IN [i \in 1..Len(found) |-> ToObj(self, found[Len(found) + 1 - i], container)]
ToObjs(self, obj, xpath, container) ==
    LET found == FindAll(obj, FixXPath(xpath, NAMESPACE))
    IN [i \in 1..Len(found) |-> ToObj(self, found[i], container)]

(***************************************************************************)
(* The operations of S3StorageDriver, from the response on.                *)
(***************************************************************************)
UnexpectedStatusNoCode(self, status) ==
    LibcloudError(<<"Unexpected status code: ">>, self)
UnexpectedStatus(self, status) ==
    LibcloudError(<<"Unexpected status code: ">> \o Str(status), self)

ListContainersAnySuccess(self, raw) ==
    LET r == ResponseInit(raw)
    IN IF r.kind = "raise" THEN r
       ELSE Return(ToContainers(self, raw.object, <<"Buckets", "Bucket">>))
ListContainers(self, raw) ==
    LET r == ResponseInit(raw)
    IN IF r.kind = "raise" THEN r
       ELSE IF raw.status = OK
       THEN Return(ToContainers(self, raw.object, <<"Buckets", "Bucket">>))
       ELSE Raise(UnexpectedStatus(self, raw.status))

ListContainerObjects(self, container, raw) ==
    LET r == ResponseInit(raw)
    IN IF r.kind = "raise" THEN r
       ELSE IF raw.status = OK
       THEN Return(ToObjs(self, raw.object, <<"Contents">>, container))
       ELSE Raise(UnexpectedStatus(self, raw.status))

CreateContainerAny2xx(self, container_name, raw) ==
    LET r == ResponseInit(raw)
    IN IF r.kind = "raise" THEN r
       ELSE IF raw.status >= 200 /\ raw.status <= 299
       THEN Return(Container(container_name, NoneRef, self))
       ELSE Raise(UnexpectedStatus(self, raw.status))
CreateContainer(self, container_name, raw) ==
    LET r == ResponseInit(raw)
    IN IF r.kind = "raise" THEN r
       ELSE IF raw.status = OK
       THEN Return(Container(container_name, NoneRef, self))
       ELSE IF raw.status = CONFLICT
       THEN Raise(LibcloudError(<<"Container with this name already exists.",
                                  "The name must be unique across all the ",
                                  "containers in the system">>, NoneRef))
       ELSE Raise(UnexpectedStatus(self, raw.status))

DeleteContainerNoConflictCase(self, container, raw) ==
    LET r == ResponseInit(raw)
    IN IF r.kind = "raise" THEN r
       ELSE IF raw.status = NO_CONTENT THEN Return(TRUE)
       ELSE IF raw.status = NOT_FOUND
       THEN Raise(ContainerDoesNotExistError(NoneText, self, container.name))
       ELSE Return(FALSE)
DeleteContainerTrueOn2xx(self, container, raw) ==
    LET r == ResponseInit(raw)
    IN IF r.kind = "raise" THEN r
       ELSE IF raw.status >= 200 /\ raw.status <= 299 THEN Return(TRUE)
       ELSE IF raw.status = CONFLICT
       THEN Raise(ContainerIsNotEmptyError(
                    <<"Container must be empty", " before it can be deleted.">>,
                    container.name, self))
       ELSE IF raw.status = NOT_FOUND
       THEN Raise(ContainerDoesNotExistError(NoneText, self, container.name))
       ELSE Return(FALSE)
DeleteContainer(self, container, raw) ==
    LET r == ResponseInit(raw)
    IN IF r.kind = "raise" THEN r
       ELSE IF raw.status = NO_CONTENT THEN Return(TRUE)
       ELSE IF raw.status = CONFLICT
       THEN Raise(ContainerIsNotEmptyError(
                    <<"Container must be empty", " before it can be deleted.">>,
                    container.name, self))
       ELSE IF raw.status = NOT_FOUND
       THEN Raise(ContainerDoesNotExistError(NoneText, self, container.name))
       ELSE Return(FALSE)

\* tostring(root) of the CreateBucketConfiguration element
CreateBody(self) ==
    <<"<CreateBucketConfiguration>">>
    \o (IF self.ex_location_name = <<>> THEN <<"<LocationConstraint />">>
        ELSE <<"<LocationConstraint>">> \o self.ex_location_name
             \o <<"</LocationConstraint>">>)
    \o <<"</CreateBucketConfiguration>">>

Ops == {"list_containers", "list_container_objects", "create_container",
        "delete_container"}

\* the argument of an operation: none, a container, or a container name
OpArgs(op) == IF op = "list_containers" THEN {NoneText} ELSE ContainerNames

\* the container object a caller passes for a name
CallerContainer(self, name) == Container(name, NoneRef, self)

\* what each operation passes to connection.request
RequestOf(self, op, name) ==
    CASE op = "list_containers" ->
            [action |-> <<"/">>, method |-> GET, data |-> <<>>]
      [] op = "list_container_objects" ->
            [action |-> PathOf(name), method |-> GET, data |-> <<>>]
      [] op = "create_container" ->
            [action |-> PathOf(name), method |-> PUT, data |-> CreateBody(self)]
      [] op = "delete_container" ->
            [action |-> PathOf(name), method |-> DELETE, data |-> <<>>]

\* what each operation does with the response
Outcome(self, op, name, raw) ==
    CASE op = "list_containers" -> ListContainers(self, raw)
      [] op = "list_container_objects" ->
            ListContainerObjects(self, CallerContainer(self, name), raw)
      [] op = "create_container" -> CreateContainer(self, name, raw)
      [] op = "delete_container" ->
            DeleteContainer(self, CallerContainer(self, name), raw)

(***************************************************************************)
(* XML documents the service answers with.                                 *)
(***************************************************************************)
OtherNamespace == <<"urn:other">>

Leaf(name, text) == Elem(NAMESPACE, name, text, <<>>)

\* the child for a field: none when the field is absent
Field(name, text) == IF text = <<"absent">> THEN <<>> ELSE <<Leaf(name, text)>>

BucketNode(name, date) ==
    Elem(NAMESPACE, "Bucket", NoneText,
         Field("Name", name) \o Field("CreationDate", date))

OwnerNode(id, display_name) ==
    Elem(NAMESPACE, "Owner", NoneText,
         Field("ID", id) \o Field("DisplayName", display_name))

ContentsNode(key, size, etag, owner) ==
    Elem(NAMESPACE, "Contents", NoneText,
         Field("Key", key) \o Field("Size", size) \o Field("ETag", etag) \o owner)

BucketSectionNodes ==
    { BucketNode(<<"a">>, <<"2011-01-01">>),
      BucketNode(<<"b">>, <<"absent">>),
      BucketNode(<<"absent">>, <<"2011-02-02">>),
      BucketNode(NoneText, <<"2011-03-03">>),
      Elem(OtherNamespace, "Bucket", NoneText, <<Leaf("Name", <<"x">>)>>),
      OwnerNode(<<"id1">>, <<"me">>) }

ContentsSectionNodes ==
    { ContentsNode(<<"k1">>, <<"10">>, <<"e1">>, <<OwnerNode(<<"id1">>, <<"me">>)>>),
      ContentsNode(<<"k2">>, <<"20">>, <<"absent">>, <<>>),
      ContentsNode(<<"absent">>, <<"absent">>, <<"e3">>,
                   <<OwnerNode(<<"id3">>, <<"absent">>)>>),
      Elem(OtherNamespace, "Contents", NoneText, <<Leaf("Key", <<"x">>)>>),
      Leaf("Name", <<"a">>) }

SeqsUpTo(S, n) == UNION {[1..k -> S] : k \in 0..n}

BucketsNode(kids) == Elem(NAMESPACE, "Buckets", NoneText, kids)

\* ListAllMyBucketsResult: an owner and one Buckets section, or two sections
ContainerDocs ==
    { Elem(NAMESPACE, "ListAllMyBucketsResult", NoneText,
           <<OwnerNode(<<"id1">>, <<"me">>), BucketsNode(k)>>) :
        k \in SeqsUpTo(BucketSectionNodes, MaxNodes) }
    \cup
    { Elem(NAMESPACE, "ListAllMyBucketsResult", NoneText,
           <<BucketsNode(k), BucketsNode(<<BucketNode(<<"b">>, <<"2011-04-04">>)>>)>>) :
        k \in SeqsUpTo(BucketSectionNodes, MaxNodes) }

\* ListBucketResult: the bucket's name, then its contents
ObjectDocs ==
    { Elem(NAMESPACE, "ListBucketResult", NoneText, <<Leaf("Name", <<"a">>)>> \o k) :
        k \in SeqsUpTo(ContentsSectionNodes, MaxNodes) }

NoDoc == Elem(<<>>, "none", NoneText, <<>>)

\* the responses of the transport: a status, the body text and its parsed tree
Statuses == {199, 200, 204, 299, 300, 301, 403, 404, 409, 500}

Samples ==
    { [body |-> <<"<ListAllMyBucketsResult>">>,
       object |-> Elem(NAMESPACE, "ListAllMyBucketsResult", NoneText,
                    <<OwnerNode(<<"id1">>, <<"me">>),
                      BucketsNode(<<BucketNode(<<"a">>, <<"2011-01-01">>),
                                    BucketNode(<<"b">>, <<"2011-04-04">>)>>)>>)],
      [body |-> <<"<ListBucketResult>">>,
       object |-> Elem(NAMESPACE, "ListBucketResult", NoneText,
                    <<Leaf("Name", <<"a">>),
                      ContentsNode(<<"k1">>, <<"10">>, <<"e1">>,
                                   <<OwnerNode(<<"id1">>, <<"me">>)>>),
                      ContentsNode(<<"k2">>, <<"20">>, <<"absent">>, <<>>)>>)] }

RawResponses == {[status |-> st, body |-> sm.body, object |-> sm.object] :
                    st \in Statuses, sm \in Samples}

NoResponse == [status |-> 0, body |-> <<>>, object |-> NoDoc]

(***************************************************************************)
(* State.                                                                  *)
(***************************************************************************)
Threads == {"t1", "t2"}

NoConn == [method |-> NoneText, action |-> NoneText]

Idle == [pc |-> "idle", op |-> None, name |-> NoneText,
         method |-> NoneText, action |-> NoneText, data |-> <<>>,
         params |-> EmptyDict, raw |-> NoResponse,
         response |-> Return(NoResponse), outcome |-> Return(NoneRef)]

NoCall == [fn |-> "none"]
NoMapped == [fn |-> "none"]

InitCommon ==
    /\ conn = NoConn
    /\ thr = [t \in Threads |-> Idle]
    /\ now = T0
    /\ heap = <<>>
    /\ call = NoCall
    /\ doc = NoDoc
    /\ mapped = NoMapped

Init ==
    /\ driver \in Drivers
    /\ InitCommon

(***************************************************************************)
(* A driver operation, step by step, on the connection the threads share.  *)
(***************************************************************************)
\* the operation calls connection.request, which records the action and the
\* method on the connection object
Call(t, op, name) ==
    /\ thr[t].pc = "idle"
    /\ LET rq == RequestOf(driver, op, name)
       IN /\ conn' = [method |-> rq.method, action |-> rq.action]
          /\ thr' = [thr EXCEPT ![t] =
                        [Idle EXCEPT !.pc = "request", !.op = op, !.name = name,
                                     !.method = rq.method, !.action = rq.action,
                                     !.data = rq.data]]
    /\ UNCHANGED <<driver, now, heap, call, doc, mapped>>

\* request() has a fresh dict signed by add_default_params and sends the
\* request with its own method and action
Sign(t) ==
    /\ thr[t].pc = "request"
    /\ LET r == AddDefaultParams(<<EmptyDict>>, conn, 1, now)
       IN thr' = [thr EXCEPT ![t].pc = "sent", ![t].params = r.heap[r.ret]]
    /\ UNCHANGED <<driver, conn, now, heap, call, doc, mapped>>

\* the response arrives, is classified, and the operation finishes
Respond(t, raw) ==
    /\ thr[t].pc = "sent"
    /\ thr' = [thr EXCEPT ![t].pc = "done", ![t].raw = raw,
                          ![t].params = EmptyDict,
                          ![t].response = ResponseInit(raw),
                          ![t].outcome = Outcome(driver, thr[t].op, thr[t].name, raw)]
    /\ UNCHANGED <<driver, conn, now, heap, call, doc, mapped>>

\* the caller takes the result
Finish(t) ==
    /\ thr[t].pc = "done"
    /\ thr' = [thr EXCEPT ![t] = Idle]
    /\ UNCHANGED <<driver, conn, now, heap, call, doc, mapped>>

Next ==
    \E t \in Threads :
        \/ \E op \in Ops : \E name \in OpArgs(op) : Call(t, op, name)
        \/ Sign(t)
        \/ \E raw \in RawResponses : Respond(t, raw)
        \/ Finish(t)

Spec == Init /\ [][Next]_vars

(***************************************************************************)
(* Properties of the driver operations (specification Spec).               *)
(***************************************************************************)
Done(t) == thr[t].pc = "done"
Raised(t) == thr[t].outcome.kind = "raise"
Returned(t) == thr[t].outcome.kind = "return"
Is2xx(s) == s >= 200 /\ s <= 299

\* C1: delete_container returns True on 204, raises ContainerIsNotEmptyError
\* with the container's name on 409 and ContainerDoesNotExistError with the
\* container's name on 404.
C1_DeleteOutcomes ==
    \A t \in Threads :
        (Done(t) /\ thr[t].op = "delete_container") =>
            LET s == thr[t].raw.status
                o == thr[t].outcome
            IN /\ s = 204 => (o.kind = "return" /\ o.value = TRUE)
               /\ s = 409 => /\ o.kind = "raise"
                             /\ o.exc.cls = "ContainerIsNotEmptyError"
                             /\ o.exc.container_name = thr[t].name
               /\ s = 404 => /\ o.kind = "raise"
                             /\ o.exc.cls = "ContainerDoesNotExistError"
                             /\ o.exc.container_name = thr[t].name

C1_Witness ==
    \E t \in Threads :
        /\ Done(t) /\ thr[t].op = "delete_container"
        /\ thr[t].raw.status = 409 /\ Raised(t)
        /\ thr[t].outcome.exc.container_name = <<"b">>

\* C2 as stated: on every status other than 204, 409 and 404, also 403, 301
\* and 5xx, delete_container returns False and raises nothing.
C2_DeleteOtherStatusReturnsFalse ==
    \A t \in Threads :
        (Done(t) /\ thr[t].op = "delete_container"
           /\ thr[t].raw.status \notin {204, 409, 404}) =>
            (thr[t].outcome.kind = "return" /\ thr[t].outcome.value = FALSE)

\* C2 amended: on a status other than 204, 409 and 404, delete_container
\* returns False without raising exactly when the status is 2xx; on every
\* other such status (403, 301, 5xx, ...) the response classifier's error is
\* raised before the operation sees the status.
C2_DeleteOtherStatus ==
    \A t \in Threads :
        (Done(t) /\ thr[t].op = "delete_container"
           /\ thr[t].raw.status \notin {204, 409, 404}) =>
            LET s == thr[t].raw.status
                o == thr[t].outcome
            IN IF Is2xx(s) THEN o.kind = "return" /\ o.value = FALSE
               ELSE /\ o.kind = "raise"
                    /\ o.exc.cls = (IF s = 403 THEN "InvalidCredsError"
                                    ELSE "LibcloudError")
                    /\ o.exc.container_name = NoneText

C2_Witness ==
    \E t \in Threads :
        /\ Done(t) /\ thr[t].op = "delete_container"
        /\ thr[t].raw.status = 200
        /\ Returned(t) /\ thr[t].outcome.value = FALSE

\* C3: the classifier yields Success exactly for 200..299, 404 and 409;
\* otherwise it raises InvalidCredsError on 403, the wrong-region error on
\* 301, and else an unknown error whose message ends with the status code.
C3_Classifier ==
    \A t \in Threads :
        Done(t) =>
            LET s == thr[t].raw.status
                r == thr[t].response
                ok == Is2xx(s) \/ s = 404 \/ s = 409
            IN /\ (r.kind = "return") <=> ok
               /\ s = 403 => r.exc.cls = "InvalidCredsError"
               /\ s = 301 => /\ r.exc.cls = "LibcloudError"
                             /\ r.exc.value[1] = "This bucket is located in a different "
               /\ (~ok /\ s \notin {403, 301}) =>
                      /\ r.exc.cls = "LibcloudError"
                      /\ r.exc.value[1] = "Unknown error. Status code: "
                      /\ EndsWith(r.exc.value, Str(s))

C3_Witness ==
    \E t \in Threads :
        /\ Done(t) /\ thr[t].raw.status = 500
        /\ thr[t].response.kind = "raise"
        /\ thr[t].response.exc.value = <<"Unknown error. Status code: ", "5", "0", "0">>

IsListOp(op) == op \in {"list_containers", "list_container_objects"}

\* the entities a list operation maps its response to
ListEntities(t) ==
    IF thr[t].op = "list_containers"
    THEN ToContainers(driver, thr[t].raw.object, <<"Buckets", "Bucket">>)
    ELSE ToObjs(driver, thr[t].raw.object, <<"Contents">>,
                CallerContainer(driver, thr[t].name))

\* C4 as stated: a list operation returns the mapped entities for every
\* response the classifier accepts (2xx, 404, 409) and raises the classified
\* error for every other.
C4_ListReturnsOnEverySuccess ==
    \A t \in Threads :
        (Done(t) /\ IsListOp(thr[t].op)) =>
            IF thr[t].response.kind = "return"
            THEN Returned(t) /\ thr[t].outcome.value = ListEntities(t)
            ELSE thr[t].outcome = thr[t].response

\* C4 amended: a list operation returns the mapped entities exactly when the
\* status is 200; on every other status the classifier accepts (the other
\* 2xx, 404, 409) it raises an unexpected-status error that names the status;
\* on a response the classifier rejects it raises the classified error.
C4_ListReturnsOn200 ==
    \A t \in Threads :
        (Done(t) /\ IsListOp(thr[t].op)) =>
            LET s == thr[t].raw.status
                o == thr[t].outcome
            IN IF s = 200
               THEN o.kind = "return" /\ o.value = ListEntities(t)
               ELSE IF thr[t].response.kind = "return"
               THEN /\ o.kind = "raise"
                    /\ o.exc.cls = "LibcloudError"
                    /\ o.exc.value = <<"Unexpected status code: ">> \o Str(s)
                    /\ o.exc.driver = driver
               ELSE o = thr[t].response

C4_Witness ==
    \E t \in Threads :
        /\ Done(t) /\ thr[t].op = "list_container_objects"
        /\ thr[t].raw.status = 404 /\ Raised(t)
        /\ thr[t].outcome.exc.value = <<"Unexpected status code: ", "4", "0", "4">>

\* C5: create_container returns a container only on 200, named as asked and
\* referring to the driver called; on 409 it raises the already-exists error;
\* on every other status it raises and returns no container.
C5_CreateOutcomes ==
    \A t \in Threads :
        (Done(t) /\ thr[t].op = "create_container") =>
            LET s == thr[t].raw.status
                o == thr[t].outcome
            IN /\ o.kind = "return" =>
                    /\ s = 200
                    /\ o.value.name = thr[t].name
                    /\ o.value.driver = driver
               /\ s = 200 => o.kind = "return"
               /\ s = 409 =>
                    /\ o.kind = "raise"
                    /\ o.exc.value[1] = "Container with this name already exists."
               /\ s # 200 => o.kind = "raise"

C5_Witness ==
    \E t \in Threads :
        /\ Done(t) /\ thr[t].op = "create_container"
        /\ thr[t].raw.status = 200 /\ Returned(t)
        /\ thr[t].outcome.value.name = <<"a">>

\* C8: whatever the interleaving, the Signature of a request that is sent
\* is computed over that request's own method and path.
C8_SignatureOverOwnRequest ==
    \A t \in Threads :
        thr[t].pc = "sent" =>
            thr[t].params["Signature"] =
                GetAwsAuthParam(thr[t].method, <<>>, EmptyDict,
                                thr[t].params["Expires"], SECRET_KEY, thr[t].action)

\* C9 as stated: every failure raised carries the status code of the
\* response and, for an operation on a named container, that name.
C9_FailureCarriesStatusAndName ==
    \A t \in Threads :
        (Done(t) /\ Raised(t)) =>
            LET e == thr[t].outcome.exc
            IN /\ EndsWith(e.value, Str(thr[t].raw.status))
               /\ thr[t].name # NoneText => e.container_name = thr[t].name

\* C9 amended: a failure carries the status code when it is the classifier's
\* unknown-status error or an operation's unexpected-status error (the errors
\* for 403, 301, 409 on create and 409/404 on delete are built without it),
\* and it carries the container's name exactly when it is delete_container's
\* error for 409 or 404.
MappedError(op, s) ==
    \/ s \in {403, 301}
    \/ s = 409 /\ op \in {"create_container", "delete_container"}
    \/ s = 404 /\ op = "delete_container"

C9_FailureCarries ==
    \A t \in Threads :
        (Done(t) /\ Raised(t)) =>
            LET e == thr[t].outcome.exc
                s == thr[t].raw.status
                op == thr[t].op
            IN /\ ~MappedError(op, s) => EndsWith(e.value, Str(s))
               /\ (op = "delete_container" /\ s \in {404, 409})
                      => e.container_name = thr[t].name
               /\ ~(op = "delete_container" /\ s \in {404, 409})
                      => e.container_name = NoneText

C9_Witness ==
    \E t \in Threads :
        /\ Done(t) /\ Raised(t)
        /\ thr[t].op = "create_container" /\ thr[t].raw.status = 204
        /\ EndsWith(thr[t].outcome.exc.value, <<"2", "0", "4">>)

(***************************************************************************)
(* The signer called on its own: Init draws the arguments, the call        *)
(* computes the string to sign and the signature.                          *)
(***************************************************************************)
ExpiresValues == {<<>>, Str(T0 + EXPIRATION_SECONDS)}

S3StandardDriver == CHOOSE d \in Drivers : d.ex_location_name = <<>>

SignerArgs ==
    [method : Methods, headers : HeaderDicts, expires : ExpiresValues,
     secret_key : SecretKeys, path : Paths]

InitSign ==
    /\ driver = S3StandardDriver
    /\ conn = NoConn
    /\ thr = [t \in Threads |-> Idle]
    /\ now = T0
    /\ heap = <<>>
    /\ \E a \in SignerArgs : call = [fn |-> "pending", args |-> a]
    /\ doc = NoDoc
    /\ mapped = NoMapped

SignerCall ==
    /\ call.fn = "pending"
    /\ LET a == call.args
       IN call' = [fn |-> "_get_aws_auth_param", args |-> a,
                   string_to_sign |->
                       StringToSign(a.method, a.headers, a.expires, a.path),
                   ret |-> GetAwsAuthParam(a.method, a.headers, EmptyDict,
                                           a.expires, a.secret_key, a.path)]
    /\ UNCHANGED <<driver, conn, thr, now, heap, doc, mapped>>

NextSign == SignerCall

SpecSign == InitSign /\ [][NextSign]_vars

\* the values supplied for a header name, names compared without case;
\* the empty string when there is none
Supplied(headers, k) ==
    LET vs == {headers[i].value :
                  i \in {j \in 1..Len(headers) : LowerKey(headers[j].key) = k}}
    IN IF vs = {} THEN {<<>>} ELSE vs

IsSpecialEntry(e) == LowerKey(e.key) \in special_header_keys

\* C6: with a non-empty expiry the string signed is the method, the supplied
\* content-md5 value, the supplied content-type value, the expiry and the
\* path, joined by newlines, and the signature is the same with every header
\* outside content-md5, content-type and date removed.
C6_StringToSign ==
    (call.fn = "_get_aws_auth_param" /\ call.args.expires # <<>>) =>
        LET a == call.args
        IN /\ \E md5 \in Supplied(a.headers, "content-md5") :
              \E ctype \in Supplied(a.headers, "content-type") :
                 /\ call.string_to_sign =
                        Join(<<a.method, md5, ctype, a.expires, a.path>>, <<"\n">>)
                 /\ call.ret = B64Encode(HmacSha1(a.secret_key, call.string_to_sign))
           /\ call.ret = GetAwsAuthParam(a.method,
                                         SelectSeq(a.headers, IsSpecialEntry),
                                         EmptyDict, a.expires, a.secret_key, a.path)

(***************************************************************************)
(* add_default_params called with a dict the caller keeps a reference to.  *)
(***************************************************************************)
ParamDicts ==
    { EmptyDict,
      DictSet(EmptyDict, "prefix", <<"p">>),
      DictSet(DictSet(EmptyDict, "prefix", <<"p">>), "max-keys", <<"1", "0">>),
      DictSet(EmptyDict, "marker", <<"m">>),
      DictSet(EmptyDict, "Signature", <<"stale">>),
      DictSet(EmptyDict, "Expires", <<"0">>),
      DictSet(DictSet(EmptyDict, "AWSAccessKeyId", "someone"), "prefix", <<"p">>) }

\* request() records the method and the action on the connection
BeginRequest(method, action) ==
    /\ conn' = [method |-> method, action |-> action]
    /\ UNCHANGED <<driver, thr, now, heap, call, doc, mapped>>

\* the caller's dict is object 1 of the heap
ParamsCall(params) ==
    /\ conn # NoConn
    /\ LET r == AddDefaultParams(<<params>>, conn, 1, now)
       IN /\ heap' = r.heap
          /\ call' = [fn |-> "add_default_params", arg |-> 1, before |-> params,
                      ret |-> r.ret]
    /\ UNCHANGED <<driver, conn, thr, now, doc, mapped>>

Tick ==
    /\ now < T0 + MaxTicks
    /\ now' = now + 1
    /\ UNCHANGED <<driver, conn, thr, heap, call, doc, mapped>>

NextParams ==
    \/ \E method \in Methods, action \in Paths : BeginRequest(method, action)
    \/ \E params \in ParamDicts : ParamsCall(params)
    \/ Tick

InitParams ==
    /\ driver = S3StandardDriver
    /\ InitCommon

SpecParams == InitParams /\ [][NextParams]_vars

AuthKeys == {"Signature", "AWSAccessKeyId", "Expires"}

\* C7 as stated: after add_default_params(params) the dict the caller passed
\* holds what it held before, and the three authentication keys are only in
\* the dict returned.
C7_CallerDictUnchanged ==
    call.fn = "add_default_params" =>
        /\ heap[call.arg] = call.before
        /\ AuthKeys \subseteq DOMAIN heap[call.ret]

\* C7 amended: add_default_params writes Signature, AWSAccessKeyId and
\* Expires into the dict the caller passed and returns that same dict; every
\* other key of the dict keeps its value and no other key is added.
C7_CallerDictGainsAuthKeys ==
    call.fn = "add_default_params" =>
        /\ call.ret = call.arg
        /\ Len(heap) = 1
        /\ DOMAIN heap[call.arg] = (DOMAIN call.before) \cup AuthKeys
        /\ \A k \in (DOMAIN call.before) \ AuthKeys :
               heap[call.arg][k] = call.before[k]
        /\ heap[call.arg]["AWSAccessKeyId"] = USER_ID

C7_Witness ==
    /\ call.fn = "add_default_params"
    /\ DOMAIN call.before = {"prefix", "max-keys"}
    /\ DOMAIN heap[call.arg] = {"prefix", "max-keys"} \cup AuthKeys
    /\ now = T0 + 1

(***************************************************************************)
(* The entity mapper: Init draws the document, the call maps it.           *)
(***************************************************************************)
\* containers a caller may pass: its own or one listed earlier
CallerContainers ==
    {CallerContainer(driver, n) : n \in ContainerNames}
    \cup {Container(<<"a">>, [creation_date |-> <<"2011-01-01">>], driver)}

InitMap ==
    /\ driver \in Drivers
    /\ conn = NoConn
    /\ thr = [t \in Threads |-> Idle]
    /\ now = T0
    /\ heap = <<>>
    /\ call = NoCall
    /\ doc \in ContainerDocs \cup ObjectDocs
    /\ mapped = NoMapped

MapContainers ==
    /\ mapped = NoMapped
    /\ mapped' = [fn |-> "_to_containers",
                  ret |-> ToContainers(driver, doc, <<"Buckets", "Bucket">>)]
    /\ UNCHANGED <<driver, conn, thr, now, heap, call, doc>>

MapObjs(container) ==
    /\ mapped = NoMapped
    /\ mapped' = [fn |-> "_to_objs", container |-> container,
                  ret |-> ToObjs(driver, doc, <<"Contents">>, container)]
    /\ UNCHANGED <<driver, conn, thr, now, heap, call, doc>>

NextMap ==
    \/ MapContainers
    \/ \E container \in CallerContainers : MapObjs(container)

SpecMap == InitMap /\ [][NextMap]_vars

(***************************************************************************)
(* Properties of the entity mapper (specification SpecMap).                *)
(***************************************************************************)
\* the text a node gives for a field: that of its first child of that name
\* ('' when the child has no text), None when it has no such child
FieldText(node, name) ==
    LET idx == {k \in 1..Len(node.kids) : node.kids[k].tag = <<NAMESPACE, name>>}
    IN IF idx = {} THEN NoneText
       ELSE LET k == CHOOSE k \in idx : \A m \in idx : k <= m
            IN IF node.kids[k].text = NoneText THEN <<>> ELSE node.kids[k].text

\* the owner child of a contents node, an empty node when there is none
OwnerOf(node) ==
    LET idx == {k \in 1..Len(node.kids) : node.kids[k].tag = <<NAMESPACE, "Owner">>}
    IN IF idx = {} THEN NoDoc
       ELSE node.kids[CHOOSE k \in idx : \A m \in idx : k <= m]

\* positions <<i, j>> of the bucket nodes: child j of the Buckets child i
BucketIdx ==
    {p \in (1..Len(doc.kids)) \X (1..(MaxNodes + 1)) :
        /\ doc.kids[p[1]].tag = <<NAMESPACE, "Buckets">>
        /\ p[2] <= Len(doc.kids[p[1]].kids)
        /\ doc.kids[p[1]].kids[p[2]].tag = <<NAMESPACE, "Bucket">>}

BucketRank(p) ==
    1 + Cardinality({q \in BucketIdx :
                        q[1] < p[1] \/ (q[1] = p[1] /\ q[2] < p[2])})

\* positions of the contents nodes among the children of the root
ContentsIdx == {i \in 1..Len(doc.kids) : doc.kids[i].tag = <<NAMESPACE, "Contents">>}

ContentsRank(i) == 1 + Cardinality({j \in ContentsIdx : j < i})

\* C10: the mapper yields one entity per bucket (contents) node, in document
\* order, each with the fields of its node, a reference to the mapping
\* driver and, for an object, to the container the caller passed.
C10_MapperRoundTrip ==
    /\ mapped.fn = "_to_containers" =>
          /\ Len(mapped.ret) = Cardinality(BucketIdx)
          /\ \A p \in BucketIdx :
                LET node == doc.kids[p[1]].kids[p[2]]
                    c == mapped.ret[BucketRank(p)]
                IN /\ c.name = FieldText(node, "Name")
                   /\ c.extra.creation_date = FieldText(node, "CreationDate")
                   /\ c.driver = driver
    /\ mapped.fn = "_to_objs" =>
          /\ Len(mapped.ret) = Cardinality(ContentsIdx)
          /\ \A i \in ContentsIdx :
                LET node == doc.kids[i]
                    o == mapped.ret[ContentsRank(i)]
                IN /\ o.name = FieldText(node, "Key")
                   /\ o.size = FieldText(node, "Size")
                   /\ o.hash = FieldText(node, "ETag")
                   /\ o.meta_data.owner.id = FieldText(OwnerOf(node), "ID")
                   /\ o.meta_data.owner.display_name =
                          FieldText(OwnerOf(node), "DisplayName")
                   /\ o.container = mapped.container
                   /\ o.driver = driver

C10_Witness ==
    /\ mapped.fn = "_to_containers"
    /\ Cardinality(BucketIdx) = MaxNodes + 1
    /\ Len(mapped.ret) = MaxNodes + 1
    /\ mapped.ret[1].name = <<"a">>
    /\ mapped.ret[Len(mapped.ret)].extra.creation_date = <<"2011-04-04">>

====
